---- MODULE Spec2Model ----
(***************************************************************************)
(* Model of ClipGenerator (src/main.py): the fps normaliser ensure_fps,    *)
(* the reframer smart_crop_for_instagram_reels, the segment scheduler      *)
(* create_clips and the per-video pipeline process_video / process_videos. *)
(*                                                                         *)
(* Times are whole seconds.  A segment is a pair <<start, end>>.  The     *)
(* scheduler only adds max_duration to the cursor and computes             *)
(* cursor + (duration - cursor) once the cursor is at least the remainder, *)
(* where the float subtraction is exact, so whole seconds lose nothing.    *)
(***************************************************************************)
EXTENDS Integers, Sequences, FiniteSets, TLC

VARIABLES
    \* ---- create_clips(video, min_duration, max_duration) ----
    duration,        \* video.duration
    min_duration,    \* parameter min_duration
    max_duration,    \* parameter max_duration
    clips,           \* local list clips
    current_time,    \* local current_time
    cc_pc,           \* "loop" = at the while head, "done" = returned, "idle"
    cc_branch,       \* the branch the last pass through the loop body took
    \* ---- ensure_fps(clip, default_fps) ----
    fps,             \* clip.fps
    default_fps,     \* parameter default_fps
    fps_first,       \* clip.fps as left by the first call
    fps_calls,       \* number of calls made on the clip so far
    \* ---- process_videos() ----
    folder_exists,   \* os.path.exists(unedited_folder)
    video_files,     \* the list video_files
    vidx,            \* position of the for loop in video_files
    pvs_pc,          \* "start", "loop", "call", "returned", "crashed", "idle"
    started,         \* the files process_video was called with, in call order
    \* ---- process_video(video_path, output_folder) ----
    pv_pc,           \* the statement process_video is about to run
    video,           \* local video: [duration, fps, w, h]
    pv_clips,        \* local clips = create_clips(video)
    seg_i,           \* loop index i of enumerate(clips, 1)
    clip_fps,        \* clip.fps of the current sub-clip
    attempts,        \* write_videofile calls made for the current sub-clip
    pv_exc,          \* the exception in flight, "none" when there is none
    \* ---- the environment ----
    out_exists,      \* os.path.exists(output_folder)
    open_handles,    \* files whose VideoFileClip is open (not closed)
    files,           \* output files written: <<file, i>> is <file>_clip_<i>.mp4
    error_log,       \* files logged by "Error processing video" (line 117)
    \* ---- smart_crop_for_instagram_reels(clip) ----
    src_w,           \* clip.w of the clip passed in
    src_h,           \* clip.h of the clip passed in
    peak_col,        \* edges.argmax(), -1 while no frame was analysed
    window,          \* (x1, y1, x2, y2) passed to crop()
    crop_size,       \* [w, h] of the clip after the crop branch
    out_size,        \* [w, h] of the clip returned
    crop_pc          \* "start", "cropped", "done", "raised", "idle"

ccVars  == <<duration, min_duration, max_duration, clips, current_time, cc_pc,
            cc_branch>>
fpsVars == <<fps, default_fps, fps_first, fps_calls>>
pvsVars == <<folder_exists, video_files, vidx, pvs_pc, started>>
pvVars  == <<pv_pc, video, pv_clips, seg_i, clip_fps, attempts, pv_exc>>
envVars == <<out_exists, open_handles, files, error_log>>
batchVars == <<pvsVars, pvVars, envVars>>
cropVars == <<src_w, src_h, peak_col, window, crop_size, out_size, crop_pc>>
vars    == <<ccVars, fpsVars, batchVars, cropVars>>

\* ------------------------------------------------------------------------
\* Bounds of the model
\* ------------------------------------------------------------------------
MaxDur    == 32     \* largest video.duration given to create_clips
MaxMinLen == 3      \* largest min_duration
MaxMaxLen == 15     \* largest max_duration
MaxFps    == 3      \* numeric fps values range over -MaxFps..MaxFps

\* ------------------------------------------------------------------------
\* Program constants
\* ------------------------------------------------------------------------
DefaultMinDuration == 3      \* create_clips: min_duration=3
DefaultMaxDuration == 15     \* create_clips: max_duration=15
DefaultFps         == 30     \* ensure_fps: default_fps=30.0
ReelsMaxW          == 1080   \* smart_crop_for_instagram_reels: clip.w > 1080
ReelsMaxH          == 1920   \* smart_crop_for_instagram_reels: clip.h > 1920

\* ========================================================================
\* create_clips
\* ========================================================================

\* while current_time < video.duration
LoopCond_Inclusive(ct, d) == ct <= d
LoopCond(ct, d) == ct < d

\* if remaining_time > max_duration
IsLong(rem, mx) == rem > mx

\* elif remaining_time < min_duration
IsShort_Inclusive(rem, mn) == rem <= mn
IsShort_Never(rem, mn) == FALSE
IsShort(rem, mn) == rem < mn

\* clips[-1] = (clips[-1][0], video.duration)
MergeIntoLast_Skip(cl, d) == cl
MergeIntoLast_Append(cl, d) == Append(cl, <<cl[Len(cl)][2], d>>)
MergeIntoLast(cl, d) == [cl EXCEPT ![Len(cl)] = <<cl[Len(cl)][1], d>>]

\* clips.append((current_time, video.duration))
EmitSingle_Skip(cl, ct, d) == cl
EmitSingle(cl, ct, d) == Append(cl, <<ct, d>>)

\* One pass through the body of the while loop, from a state in which the
\* loop condition holds.  brk is TRUE when the pass leaves by `break`.
LoopBody_NoAdvance(cl, ct, d, mn, mx) ==
    LET remaining_time == d - ct IN
    IF IsLong(remaining_time, mx)
    THEN [clips |-> Append(cl, <<ct, ct + mx>>),
          current_time |-> ct, brk |-> FALSE]
    ELSE IF IsShort(remaining_time, mn)
    THEN [clips |-> IF cl # <<>> THEN MergeIntoLast(cl, d)
                                 ELSE EmitSingle(cl, ct, d),
          current_time |-> ct, brk |-> TRUE]
    ELSE [clips |-> Append(cl, <<ct, ct + remaining_time>>),
          current_time |-> ct + remaining_time, brk |-> FALSE]
LoopBody(cl, ct, d, mn, mx) ==
    LET remaining_time == d - ct IN
    IF IsLong(remaining_time, mx)
    THEN [clips |-> Append(cl, <<ct, ct + mx>>),
          current_time |-> ct + mx, brk |-> FALSE]
    ELSE IF IsShort(remaining_time, mn)
    THEN [clips |-> IF cl # <<>> THEN MergeIntoLast(cl, d)
                                 ELSE EmitSingle(cl, ct, d),
          current_time |-> ct, brk |-> TRUE]
    ELSE [clips |-> Append(cl, <<ct, ct + remaining_time>>),
          current_time |-> ct + remaining_time, brk |-> FALSE]

\* The whole call, as the list it returns.
RECURSIVE CreateClipsFrom(_, _, _, _, _)
CreateClipsFrom(cl, ct, d, mn, mx) ==
    IF ~LoopCond(ct, d) THEN cl
    ELSE LET r == LoopBody(cl, ct, d, mn, mx) IN
         IF r.brk THEN r.clips
         ELSE CreateClipsFrom(r.clips, r.current_time, d, mn, mx)

CreateClips(d, mn, mx) == CreateClipsFrom(<<>>, 0, d, mn, mx)

Remaining == duration - current_time

AtLoopBody == cc_pc = "loop" /\ LoopCond(current_time, duration)

CC_Step(brk, branch) ==
    LET r == LoopBody(clips, current_time, duration, min_duration, max_duration) IN
    /\ r.brk = brk
    /\ clips' = r.clips
    /\ current_time' = r.current_time
    /\ cc_pc' = IF brk THEN "done" ELSE "loop"
    /\ cc_branch' = branch
    /\ UNCHANGED <<duration, min_duration, max_duration>>
    /\ UNCHANGED <<fpsVars, batchVars, cropVars>>

\* remaining_time > max_duration: a full segment
CC_EmitFull ==
    /\ AtLoopBody
    /\ IsLong(Remaining, max_duration)
    /\ CC_Step(FALSE, "full")

\* remaining_time < min_duration and clips non-empty: merge, break
CC_MergeTail ==
    /\ AtLoopBody
    /\ ~IsLong(Remaining, max_duration)
    /\ IsShort(Remaining, min_duration)
    /\ clips # <<>>
    /\ CC_Step(TRUE, "merge")

\* remaining_time < min_duration and clips empty: single segment, break
CC_EmitSingle ==
    /\ AtLoopBody
    /\ ~IsLong(Remaining, max_duration)
    /\ IsShort(Remaining, min_duration)
    /\ clips = <<>>
    /\ CC_Step(TRUE, "single")

\* min_duration <= remaining_time <= max_duration: the rest of the clip
CC_EmitRest ==
    /\ AtLoopBody
    /\ ~IsLong(Remaining, max_duration)
    /\ ~IsShort(Remaining, min_duration)
    /\ CC_Step(FALSE, "rest")

\* the while condition is false: return clips
CC_Return ==
    /\ cc_pc = "loop"
    /\ ~LoopCond(current_time, duration)
    /\ cc_pc' = "done"
    /\ UNCHANGED <<duration, min_duration, max_duration, clips, current_time,
                   cc_branch>>
    /\ UNCHANGED <<fpsVars, batchVars, cropVars>>

CCInit ==
    /\ duration \in 0..MaxDur
    /\ min_duration \in 1..MaxMinLen
    /\ max_duration \in min_duration..MaxMaxLen
    /\ clips = <<>>
    /\ current_time = 0
    /\ cc_pc = "loop"
    /\ cc_branch = "none"

CCIdle ==
    /\ duration = 0 /\ min_duration = DefaultMinDuration
    /\ max_duration = DefaultMaxDuration
    /\ clips = <<>> /\ current_time = 0 /\ cc_pc = "idle"
    /\ cc_branch = "none"

\* ========================================================================
\* ensure_fps
\* ========================================================================

\* The values clip.fps can hold: None, a non-number (e.g. a string), or a
\* Python number: an int/float, nan, inf, -inf.
FpsNone == [kind |-> "none", val |-> 0]
FpsStr  == [kind |-> "str",  val |-> 0]
FpsNaN  == [kind |-> "nan",  val |-> 0]
FpsInf  == [kind |-> "inf",  val |-> 0]
FpsNInf == [kind |-> "ninf", val |-> 0]
FpsNum(n) == [kind |-> "num", val |-> n]

FpsValues == {FpsNone, FpsStr, FpsNaN, FpsInf, FpsNInf}
                 \cup {FpsNum(n) : n \in (0 - MaxFps)..MaxFps}

\* isinstance(clip.fps, (int, float))
IsIntOrFloat(f) == f.kind \in {"num", "nan", "inf", "ninf"}

\* ensure_fps: the value of clip.fps after the call
EnsureFps_ClearNonPositive(f, dflt) ==
    IF f = FpsNone \/ ~IsIntOrFloat(f) THEN dflt
    ELSE IF f.kind = "num" /\ f.val <= 0 THEN FpsNone ELSE f
EnsureFps(f, dflt) ==
    IF f = FpsNone \/ ~IsIntOrFloat(f) THEN dflt ELSE f

FpsCall ==
    /\ fps_calls < 2
    /\ fps' = EnsureFps(fps, default_fps)
    /\ fps_first' = IF fps_calls = 0 THEN fps' ELSE fps_first
    /\ fps_calls' = fps_calls + 1
    /\ UNCHANGED default_fps
    /\ UNCHANGED <<ccVars, batchVars, cropVars>>

FpsInit ==
    /\ fps \in FpsValues
    /\ default_fps \in FpsValues \cup {FpsNum(DefaultFps)}
    /\ fps_first = FpsNone
    /\ fps_calls = 0

FpsIdle ==
    /\ fps = FpsNone /\ default_fps = FpsNum(DefaultFps)
    /\ fps_first = FpsNone /\ fps_calls = 0

\* ========================================================================
\* smart_crop_for_instagram_reels
\* ========================================================================
Min(a, b) == IF a < b THEN a ELSE b
Max(a, b) == IF a > b THEN a ELSE b

\* current_aspect_ratio > target_aspect_ratio, i.e. w/h > 9/16
TooWide(w, h) == 16 * w > 9 * h
\* current_aspect_ratio < target_aspect_ratio
TooTall(w, h) == 16 * w < 9 * h

\* new_width = int(clip.h * target_aspect_ratio)
NewWidth(h) == (9 * h) \div 16
\* crop_width = (clip.w - new_width) // 2
CropWidth(w, h) == (w - NewWidth(h)) \div 2
\* left_crop = min(crop_width, max(0, edges.argmax() - new_width // 2))
LeftCrop_NoUpperClamp(w, h, peak) == Max(0, peak - (NewWidth(h) \div 2))
LeftCrop(w, h, peak) ==
    Min(CropWidth(w, h), Max(0, peak - (NewWidth(h) \div 2)))
\* new_height = int(clip.w / target_aspect_ratio)
NewHeight(w) == (16 * w) \div 9

\* The crop window (x1, y1, x2, y2) passed to crop(); the whole frame when
\* the ratio is already 9/16.
CropWindow(w, h, peak) ==
    IF TooWide(w, h)
    THEN [x1 |-> LeftCrop(w, h, peak), y1 |-> 0,
          x2 |-> LeftCrop(w, h, peak) + NewWidth(h), y2 |-> h]
    ELSE IF TooTall(w, h)
    THEN [x1 |-> 0, y1 |-> (h - NewHeight(w)) \div 2,
          x2 |-> w, y2 |-> (h + NewHeight(w)) \div 2]
    ELSE [x1 |-> 0, y1 |-> 0, x2 |-> w, y2 |-> h]

\* if clip.w > 1080 or clip.h > 1920: resize(height=1920) if clip.h > clip.w
\* else resize(width=1080); the other side is scaled and truncated to an int
Resized_LandscapeTest(w, h) ==
    IF w > ReelsMaxW \/ h > ReelsMaxH
    THEN IF w > h THEN [w |-> (w * ReelsMaxH) \div h, h |-> ReelsMaxH]
                  ELSE [w |-> ReelsMaxW, h |-> (h * ReelsMaxW) \div w]
    ELSE [w |-> w, h |-> h]
Resized(w, h) ==
    IF w > ReelsMaxW \/ h > ReelsMaxH
    THEN IF h > w THEN [w |-> (w * ReelsMaxH) \div h, h |-> ReelsMaxH]
                  ELSE [w |-> ReelsMaxW, h |-> (h * ReelsMaxW) \div w]
    ELSE [w |-> w, h |-> h]

\* The sizes the clip can have after crop(clip, x1, y1, x2, y2): the frame
\* is sliced [y1:y2, x1:x2].  A window with x2 = 0 (new_width = 0 and
\* left_crop = 0) is either sliced as given, to an empty frame, or its x2 is
\* taken as "not given" and the slice runs to the full width: both outcomes
\* of the media engine are kept.
CropSizes(w, h, c) ==
    IF c.x2 = 0
    THEN {[w |-> 0, h |-> c.y2 - c.y1], [w |-> w - c.x1, h |-> c.y2 - c.y1]}
    ELSE {[w |-> c.x2 - c.x1, h |-> c.y2 - c.y1]}

\* The sizes of the clip smart_crop_for_instagram_reels can return.
SmartCropSizes(w, h, peak) ==
    {Resized(sz.w, sz.h) : sz \in CropSizes(w, h, CropWindow(w, h, peak))}

\* ---- the call as a state machine ----
MaxSmallDim == 20   \* bound: frame sides 1..MaxSmallDim are all tried
LargeSpread == 16   \* bound: sides within LargeSpread of 1080 and 1920 are tried

\* Sides of the source frames.
FrameDims ==
    (1..MaxSmallDim)
        \cup ((ReelsMaxW - LargeSpread)..(ReelsMaxW + LargeSpread))
        \cup ((ReelsMaxH - LargeSpread)..(ReelsMaxH + LargeSpread))

\* Values of edges.argmax(): an index into the w - 1 column differences.
\* All of them for small frames; the first, one past the centre of the new
\* width and the last for large frames.
PeakColumns(w, h) ==
    IF w <= MaxSmallDim THEN 0..(w - 2)
    ELSE {0, (NewWidth(h) \div 2) + 1, w - 2}

\* clip.fps of the clip passed in.
CropFpsValues == {FpsNone, FpsNum(DefaultFps)}

NoWindow == [x1 |-> 0, y1 |-> 0, x2 |-> 0, y2 |-> 0]
NoSize == [w |-> 0, h |-> 0]

\* lines 22-37: too wide, the frame is analysed and the width cropped
Crop_Wide ==
    /\ crop_pc = "start"
    /\ TooWide(src_w, src_h)
    /\ src_w >= 2
    /\ \E peak \in PeakColumns(src_w, src_h) :
          /\ peak_col' = peak
          /\ window' = CropWindow(src_w, src_h, peak)
          /\ crop_size' \in CropSizes(src_w, src_h, CropWindow(src_w, src_h, peak))
    /\ crop_pc' = "cropped"
    /\ UNCHANGED <<src_w, src_h, out_size>>
    /\ UNCHANGED <<ccVars, fpsVars, batchVars>>

\* line 33: get_frame(0) raises
Crop_FrameFails ==
    /\ crop_pc = "start"
    /\ TooWide(src_w, src_h)
    /\ crop_pc' = "raised"
    /\ UNCHANGED <<src_w, src_h, peak_col, window, crop_size, out_size>>
    /\ UNCHANGED <<ccVars, fpsVars, batchVars>>

\* line 35: a one-column frame has no column differences, argmax raises
Crop_NoEdges ==
    /\ crop_pc = "start"
    /\ TooWide(src_w, src_h)
    /\ src_w < 2
    /\ crop_pc' = "raised"
    /\ UNCHANGED <<src_w, src_h, peak_col, window, crop_size, out_size>>
    /\ UNCHANGED <<ccVars, fpsVars, batchVars>>

\* lines 38-41: too tall, the height is cropped around the centre
Crop_Tall ==
    /\ crop_pc = "start"
    /\ ~TooWide(src_w, src_h)
    /\ TooTall(src_w, src_h)
    /\ window' = CropWindow(src_w, src_h, 0)
    /\ crop_size' \in CropSizes(src_w, src_h, CropWindow(src_w, src_h, 0))
    /\ crop_pc' = "cropped"
    /\ UNCHANGED <<src_w, src_h, peak_col, out_size>>
    /\ UNCHANGED <<ccVars, fpsVars, batchVars>>

\* neither branch: the clip is not cropped
Crop_Exact ==
    /\ crop_pc = "start"
    /\ ~TooWide(src_w, src_h)
    /\ ~TooTall(src_w, src_h)
    /\ crop_size' = [w |-> src_w, h |-> src_h]
    /\ crop_pc' = "cropped"
    /\ UNCHANGED <<src_w, src_h, peak_col, window, out_size>>
    /\ UNCHANGED <<ccVars, fpsVars, batchVars>>

\* lines 43-47: resize when larger than 1080x1920, return ensure_fps(clip)
Crop_Finish ==
    /\ crop_pc = "cropped"
    /\ out_size' = Resized(crop_size.w, crop_size.h)
    /\ fps' = EnsureFps(fps, FpsNum(DefaultFps))
    /\ crop_pc' = "done"
    /\ UNCHANGED <<src_w, src_h, peak_col, window, crop_size>>
    /\ UNCHANGED <<default_fps, fps_first, fps_calls>>
    /\ UNCHANGED <<ccVars, batchVars>>

CropInit ==
    /\ src_w \in FrameDims
    /\ src_h \in FrameDims
    /\ peak_col = -1
    /\ window = NoWindow
    /\ crop_size = NoSize
    /\ out_size = NoSize
    /\ crop_pc = "start"
    /\ fps \in CropFpsValues
    /\ default_fps = FpsNum(DefaultFps)
    /\ fps_first = FpsNone
    /\ fps_calls = 0

CropIdle ==
    /\ src_w = 0 /\ src_h = 0 /\ peak_col = -1
    /\ window = NoWindow /\ crop_size = NoSize /\ out_size = NoSize
    /\ crop_pc = "idle"

\* ========================================================================
\* process_videos / process_video
\* ========================================================================
NumVideos == 2      \* bound: largest number of files in video_files

\* Exceptions raised by the media engine, numpy and the filesystem.  All of
\* them are subclasses of Exception.
ExcKinds == {"OSError", "ValueError", "TypeError"}

\* What a write_videofile call can do.
WriteOutcomes == {"ok", "TypeError", "OSError"}

\* Durations of the source videos: none, shorter than min_duration, exactly
\* max_duration, two full segments and a short tail, three full segments.
SourceDurations ==
    {0, DefaultMinDuration - 1, DefaultMaxDuration,
     2 * DefaultMaxDuration + DefaultMinDuration - 1, 3 * DefaultMaxDuration}

\* Frame sizes <<w, h>> of the source videos: one column (too wide), too
\* wide, exactly 9:16, too tall.
SourceSizes == {<<1, 1>>, <<4, 2>>, <<9, 16>>, <<2, 8>>}

NoVideo == [duration |-> 0, fps |-> FpsNone, w |-> 0, h |-> 0]

\* except TypeError (line 103): the failures of the first write that are retried
RetriedFailure_Any(outcome) == outcome # "ok"
RetriedFailure(outcome) == outcome = "TypeError"

\* except Exception (line 116): the exceptions process_video swallows
ProcessVideoCatches_TypeErrorOnly(e) == e = "TypeError"
ProcessVideoCatches(e) == e \in ExcKinds

CurrentFile == video_files[vidx]

\* lines 93-94: output_path, <basename>_clip_<i>.mp4 in the output folder
OutputPath_ZeroBased(file, i) == <<file, i - 1>>
OutputPath(file, i) == <<file, i>>

\* One write_videofile call: whether audio is requested, what the call did,
\* the path it was given and the (start, end) of the sub-clip it was made on.
Attempt(audio, outcome) ==
    [audio |-> audio, outcome |-> outcome,
     path |-> OutputPath(CurrentFile, seg_i), seg |-> pv_clips[seg_i]]

\* process_video unwinds its frame and process_videos moves to the next file
PV_ReturnToCaller ==
    /\ pvs_pc' = "loop"
    /\ vidx' = vidx + 1
    /\ pv_pc' = "none"
    /\ video' = NoVideo
    /\ pv_clips' = <<>>
    /\ seg_i' = 0
    /\ clip_fps' = FpsNone
    /\ attempts' = <<>>
    /\ pv_exc' = "none"

\* raise inside the outer try: control goes to `except Exception`
PV_Raise(e) ==
    /\ pv_exc' = e
    /\ pv_pc' = "except"

\* lines 124-126: the input folder does not exist
PVS_NoFolder ==
    /\ pvs_pc = "start"
    /\ ~folder_exists
    /\ pvs_pc' = "returned"
    /\ UNCHANGED <<folder_exists, video_files, vidx, started>>
    /\ UNCHANGED <<pvVars, envVars, ccVars, fpsVars, cropVars>>

\* lines 128-132: no video files
PVS_NoFiles ==
    /\ pvs_pc = "start"
    /\ folder_exists
    /\ video_files = <<>>
    /\ pvs_pc' = "returned"
    /\ UNCHANGED <<folder_exists, video_files, vidx, started>>
    /\ UNCHANGED <<pvVars, envVars, ccVars, fpsVars, cropVars>>

\* lines 134-138: the files are listed and the for loop starts
PVS_Listed ==
    /\ pvs_pc = "start"
    /\ folder_exists
    /\ video_files # <<>>
    /\ pvs_pc' = "loop"
    /\ vidx' = 1
    /\ UNCHANGED <<folder_exists, video_files, started>>
    /\ UNCHANGED <<pvVars, envVars, ccVars, fpsVars, cropVars>>

\* lines 138-140, 70: process_video(video_path, edited_folder) is called
PVS_Call ==
    /\ pvs_pc = "loop"
    /\ vidx <= Len(video_files)
    /\ pvs_pc' = "call"
    /\ started' = Append(started, CurrentFile)
    /\ pv_pc' = "open"
    /\ UNCHANGED <<folder_exists, video_files, vidx>>
    /\ UNCHANGED <<video, pv_clips, seg_i, clip_fps, attempts, pv_exc>>
    /\ UNCHANGED <<envVars, ccVars, fpsVars, cropVars>>

\* line 138: video_files is exhausted, process_videos returns
PVS_Return ==
    /\ pvs_pc = "loop"
    /\ vidx > Len(video_files)
    /\ pvs_pc' = "returned"
    /\ UNCHANGED <<folder_exists, video_files, vidx, started>>
    /\ UNCHANGED <<pvVars, envVars, ccVars, fpsVars, cropVars>>

\* line 72: video = mp.VideoFileClip(video_path)
PV_Open ==
    /\ pvs_pc = "call" /\ pv_pc = "open"
    /\ \/ /\ PV_Raise("OSError")
          /\ UNCHANGED <<video, open_handles>>
       \/ /\ \E d \in SourceDurations, f \in FpsValues, sz \in SourceSizes :
                video' = [duration |-> d, fps |-> f, w |-> sz[1], h |-> sz[2]]
          /\ open_handles' = open_handles \cup {CurrentFile}
          /\ pv_pc' = "ensure_fps"
          /\ UNCHANGED pv_exc
    /\ UNCHANGED <<pv_clips, seg_i, clip_fps, attempts>>
    /\ UNCHANGED <<pvsVars, out_exists, files, error_log, ccVars, fpsVars, cropVars>>

\* line 73: video = ensure_fps(video)
PV_EnsureFps ==
    /\ pvs_pc = "call" /\ pv_pc = "ensure_fps"
    /\ video' = [video EXCEPT !.fps = EnsureFps(video.fps, FpsNum(DefaultFps))]
    /\ pv_pc' = "smart_crop"
    /\ UNCHANGED <<pv_clips, seg_i, clip_fps, attempts, pv_exc>>
    /\ UNCHANGED <<pvsVars, envVars, ccVars, fpsVars, cropVars>>

\* line 77: video = smart_crop_for_instagram_reels(video).  In the too-wide
\* branch get_frame(0) can fail, and argmax raises ValueError on the empty
\* edge profile of a one-column frame.
PV_SmartCrop ==
    /\ pvs_pc = "call" /\ pv_pc = "smart_crop"
    /\ \/ /\ TooWide(video.w, video.h)
          /\ PV_Raise("OSError")
          /\ UNCHANGED video
       \/ /\ TooWide(video.w, video.h)
          /\ video.w < 2
          /\ PV_Raise("ValueError")
          /\ UNCHANGED video
       \/ /\ \E peak \in 0..Max(0, video.w - 2) :
             \E sz \in SmartCropSizes(video.w, video.h, peak) :
                video' = [video EXCEPT
                             !.w = sz.w, !.h = sz.h,
                             !.fps = EnsureFps(video.fps, FpsNum(DefaultFps))]
          /\ TooWide(video.w, video.h) => video.w >= 2
          /\ pv_pc' = "makedirs"
          /\ UNCHANGED pv_exc
    /\ UNCHANGED <<pv_clips, seg_i, clip_fps, attempts>>
    /\ UNCHANGED <<pvsVars, envVars, ccVars, fpsVars, cropVars>>

\* lines 80-82: create the output folder when it is missing
PV_MakeDirs ==
    /\ pvs_pc = "call" /\ pv_pc = "makedirs"
    /\ \/ /\ out_exists
          /\ pv_pc' = "create_clips"
          /\ UNCHANGED <<out_exists, pv_exc>>
       \/ /\ ~out_exists
          /\ out_exists' = TRUE
          /\ pv_pc' = "create_clips"
          /\ UNCHANGED pv_exc
       \/ /\ ~out_exists
          /\ PV_Raise("OSError")
          /\ UNCHANGED out_exists
    /\ UNCHANGED <<video, pv_clips, seg_i, clip_fps, attempts>>
    /\ UNCHANGED <<pvsVars, open_handles, files, error_log, ccVars, fpsVars, cropVars>>

\* line 84: clips = create_clips(video)
PV_CreateClips ==
    /\ pvs_pc = "call" /\ pv_pc = "create_clips"
    /\ pv_clips' = CreateClips(video.duration, DefaultMinDuration, DefaultMaxDuration)
    /\ seg_i' = 1
    /\ pv_pc' = "for"
    /\ UNCHANGED <<video, clip_fps, attempts, pv_exc>>
    /\ UNCHANGED <<pvsVars, envVars, ccVars, fpsVars, cropVars>>

\* lines 86-95: the next (start, end) is taken, clip = video.subclip(...),
\* clip = ensure_fps(clip, video.fps)
PV_Subclip ==
    /\ pvs_pc = "call" /\ pv_pc = "for"
    /\ seg_i <= Len(pv_clips)
    /\ clip_fps' = EnsureFps(video.fps, video.fps)
    /\ attempts' = <<>>
    /\ pv_pc' = "write"
    /\ UNCHANGED <<video, pv_clips, seg_i, pv_exc>>
    /\ UNCHANGED <<pvsVars, envVars, ccVars, fpsVars, cropVars>>

\* the sub-clip is written: the for loop moves to the next segment
PV_Written_NoFile ==
    /\ files' = files
    /\ seg_i' = seg_i + 1
    /\ pv_pc' = "for"
    /\ UNCHANGED pv_exc
PV_Written ==
    /\ files' = files \cup {OutputPath(CurrentFile, seg_i)}
    /\ seg_i' = seg_i + 1
    /\ pv_pc' = "for"
    /\ UNCHANGED pv_exc

\* lines 97-104: clip.write_videofile(..., audio_codec="aac", ...)
PV_Write ==
    /\ pvs_pc = "call" /\ pv_pc = "write"
    /\ \E outcome \in WriteOutcomes :
          /\ attempts' = Append(attempts, Attempt(TRUE, outcome))
          /\ IF outcome = "ok" THEN PV_Written
             ELSE IF RetriedFailure(outcome)
             THEN /\ pv_pc' = "retry"
                  /\ UNCHANGED <<files, seg_i, pv_exc>>
             ELSE /\ PV_Raise(outcome)
                  /\ UNCHANGED <<files, seg_i>>
    /\ UNCHANGED <<video, pv_clips, clip_fps>>
    /\ UNCHANGED <<pvsVars, out_exists, open_handles, error_log, ccVars, fpsVars, cropVars>>

\* lines 105-112: clip.without_audio().write_videofile(...); a failure is
\* logged and re-raised
PV_Retry ==
    /\ pvs_pc = "call" /\ pv_pc = "retry"
    /\ \E outcome \in WriteOutcomes :
          /\ attempts' = Append(attempts, Attempt(FALSE, outcome))
          /\ IF outcome = "ok" THEN PV_Written
             ELSE /\ PV_Raise(outcome)
                  /\ UNCHANGED <<files, seg_i>>
    /\ UNCHANGED <<video, pv_clips, clip_fps>>
    /\ UNCHANGED <<pvsVars, out_exists, open_handles, error_log, ccVars, fpsVars, cropVars>>

\* lines 114-115: the for loop is exhausted, video.close(), return
PV_Close ==
    /\ pvs_pc = "call" /\ pv_pc = "for"
    /\ seg_i > Len(pv_clips)
    /\ open_handles' = open_handles \ {CurrentFile}
    /\ PV_ReturnToCaller
    /\ UNCHANGED <<folder_exists, video_files, started>>
    /\ UNCHANGED <<out_exists, files, error_log, ccVars, fpsVars, cropVars>>

\* lines 116-117: except Exception: the error is logged and process_video
\* returns; an exception the clause does not match leaves process_video and
\* ends process_videos
PV_Except ==
    /\ pvs_pc = "call" /\ pv_pc = "except"
    /\ IF ProcessVideoCatches(pv_exc)
       THEN /\ error_log' = error_log \cup {CurrentFile}
            /\ PV_ReturnToCaller
       ELSE /\ pvs_pc' = "crashed"
            /\ UNCHANGED error_log
            /\ pv_pc' = "none"
            /\ UNCHANGED <<vidx, video, pv_clips, seg_i, clip_fps, attempts, pv_exc>>
    /\ UNCHANGED <<folder_exists, video_files, started>>
    /\ UNCHANGED <<out_exists, open_handles, files, ccVars, fpsVars, cropVars>>

BatchInit ==
    /\ folder_exists \in BOOLEAN
    /\ \E n \in 0..NumVideos : video_files = [i \in 1..n |-> i]
    /\ vidx = 0
    /\ pvs_pc = "start"
    /\ started = <<>>
    /\ pv_pc = "none"
    /\ video = NoVideo
    /\ pv_clips = <<>>
    /\ seg_i = 0
    /\ clip_fps = FpsNone
    /\ attempts = <<>>
    /\ pv_exc = "none"
    /\ out_exists \in BOOLEAN
    /\ open_handles = {}
    /\ files = {}
    /\ error_log = {}

BatchIdle ==
    /\ folder_exists = FALSE
    /\ video_files = <<>>
    /\ vidx = 0
    /\ pvs_pc = "idle"
    /\ started = <<>>
    /\ pv_pc = "none"
    /\ video = NoVideo
    /\ pv_clips = <<>>
    /\ seg_i = 0
    /\ clip_fps = FpsNone
    /\ attempts = <<>>
    /\ pv_exc = "none"
    /\ out_exists = FALSE
    /\ open_handles = {}
    /\ files = {}
    /\ error_log = {}

\* ========================================================================
\* Specifications
\* ========================================================================
InitClips == CCInit /\ FpsIdle /\ BatchIdle /\ CropIdle
NextClips ==
    \/ CC_EmitFull
    \/ CC_MergeTail
    \/ CC_EmitSingle
    \/ CC_EmitRest
    \/ CC_Return
SpecClips == InitClips /\ [][NextClips]_vars
\* create_clips runs to its return: nothing suspends or pre-empts the loop
SpecClipsFair == SpecClips /\ WF_vars(NextClips)

InitFps == FpsInit /\ CCIdle /\ BatchIdle /\ CropIdle
NextFps == FpsCall
SpecFps == InitFps /\ [][NextFps]_vars

InitBatch == BatchInit /\ CCIdle /\ FpsIdle /\ CropIdle
NextBatch ==
    \/ PVS_NoFolder
    \/ PVS_NoFiles
    \/ PVS_Listed
    \/ PVS_Call
    \/ PVS_Return
    \/ PV_Open
    \/ PV_EnsureFps
    \/ PV_SmartCrop
    \/ PV_MakeDirs
    \/ PV_CreateClips
    \/ PV_Subclip
    \/ PV_Write
    \/ PV_Retry
    \/ PV_Close
    \/ PV_Except
SpecBatch == InitBatch /\ [][NextBatch]_vars

InitCrop == CropInit /\ CCIdle /\ BatchIdle
NextCrop ==
    \/ Crop_Wide
    \/ Crop_FrameFails
    \/ Crop_NoEdges
    \/ Crop_Tall
    \/ Crop_Exact
    \/ Crop_Finish
SpecCrop == InitCrop /\ [][NextCrop]_vars

\* ========================================================================
\* Properties of create_clips (SpecClips)
\* ========================================================================
SegLen(seg) == seg[2] - seg[1]
Last(sq) == sq[Len(sq)]
Returned == cc_pc = "done"

\* the segments whose length is outside [min_duration, max_duration]
OutOfBounds ==
    {i \in 1..Len(clips) :
        SegLen(clips[i]) < min_duration \/ SegLen(clips[i]) > max_duration}

\* C1: the returned segments are contiguous and cover the clip: the first
\* starts at 0, each ends where the next starts, the last ends at duration,
\* and a clip of positive duration gets at least one segment.
C1_Coverage ==
    Returned =>
        /\ duration > 0 => clips # <<>>
        /\ clips # <<>> => clips[1][1] = 0 /\ Last(clips)[2] = duration
        /\ \A i \in 1..(Len(clips) - 1) : clips[i][2] = clips[i + 1][1]

C1_Witness ==
    /\ Returned /\ Len(clips) >= 3 /\ cc_branch = "merge"
    /\ Last(clips)[2] = duration

\* C2: from a loop head with 0 < remaining < min_duration and a non-empty
\* list, the step adds no segment, changes only the end of the last segment,
\* to duration, and returns; duration=32, min=3, max=15 gives [(0,15),(15,32)].
C2_TailMergeStep ==
    (/\ AtLoopBody
     /\ 0 < Remaining /\ Remaining < min_duration
     /\ clips # <<>>)
    => /\ Len(clips') = Len(clips)
       /\ \A i \in 1..(Len(clips) - 1) : clips'[i] = clips[i]
       /\ Last(clips')[1] = Last(clips)[1]
       /\ Last(clips')[2] = duration
       /\ cc_pc' = "done"

C2_Example ==
    (Returned /\ duration = 32 /\ min_duration = 3 /\ max_duration = 15)
    => clips = << <<0, 15>>, <<15, 32>> >>

C2_TailMerge == [][C2_TailMergeStep]_vars /\ []C2_Example

C2_Witness ==
    /\ Returned /\ duration = 32 /\ min_duration = 3 /\ max_duration = 15
    /\ cc_branch = "merge"
    /\ clips = << <<0, 15>>, <<15, 32>> >>

\* C3: at most one returned segment has a length outside
\* [min_duration, max_duration]; it is the only segment of a clip shorter
\* than min_duration, or the last segment after a merge.
C3_Bound ==
    Returned =>
        /\ Cardinality(OutOfBounds) <= 1
        /\ \A i \in OutOfBounds :
              \/ /\ cc_branch = "single" /\ Len(clips) = 1
                 /\ duration < min_duration
              \/ /\ cc_branch = "merge" /\ i = Len(clips)

C3_Witness ==
    /\ Returned /\ cc_branch = "merge" /\ Len(clips) >= 2
    /\ OutOfBounds = {Len(clips)}

\* C4: every segment has 0 <= start < end <= duration, at every point of
\* the call; a clip of duration 0 gets no segment.
C4_SegmentShape ==
    /\ \A i \in 1..Len(clips) :
          0 <= clips[i][1] /\ clips[i][1] < clips[i][2] /\ clips[i][2] <= duration
    /\ (Returned /\ duration = 0) => clips = <<>>

C4_Witness == Returned /\ duration > 0 /\ Len(clips) >= 2

\* C5: a clip with 0 < duration < min_duration gets exactly the segment
\* (0, duration); duration=2, min=3, max=15 gives [(0,2)].
C5_SingleShort ==
    /\ (Returned /\ 0 < duration /\ duration < min_duration)
          => clips = << <<0, duration>> >>
    /\ (Returned /\ duration = 2 /\ min_duration = 3 /\ max_duration = 15)
          => clips = << <<0, 2>> >>

C5_Witness ==
    /\ Returned /\ duration = 2 /\ min_duration = 3 /\ max_duration = 15
    /\ clips = << <<0, 2>> >>

\* C6: a duration k * max_duration with k >= 1 gets exactly k segments,
\* the i-th being ((i-1) * max_duration, i * max_duration);
\* duration=15, min=3, max=15 gives [(0,15)].
C6_ExactFit ==
    /\ (Returned /\ duration > 0 /\ duration % max_duration = 0)
          => /\ Len(clips) = duration \div max_duration
             /\ \A i \in 1..Len(clips) :
                   clips[i] = <<(i - 1) * max_duration, i * max_duration>>
    /\ (Returned /\ duration = 15 /\ min_duration = 3 /\ max_duration = 15)
          => clips = << <<0, 15>> >>

C6_Witness ==
    /\ Returned /\ duration = 2 * max_duration /\ min_duration = max_duration
    /\ Len(clips) = 2

\* ========================================================================
\* Properties of ensure_fps (SpecFps)
\* ========================================================================

\* a finite number greater than zero
ValidPositive(f) == f.kind = "num" /\ f.val > 0

\* C7: after ensure_fps with a positive default, clip.fps is a valid
\* positive number whatever it was before, and a valid positive fps is kept.
C7_Postcondition ==
    (fps_calls >= 1 /\ ValidPositive(default_fps)) => ValidPositive(fps)

\* ========================================================================
\* Properties of process_video / process_videos (SpecBatch)
\* ========================================================================

\* C8: of the write attempts for one segment, the first has audio, there
\* are at most two, a second one follows only a TypeError and has no audio;
\* any other first failure, and any failure of the retry, puts process_video
\* in its except clause, from where no write is attempted.
C8_Attempts ==
    /\ Len(attempts) <= 2
    /\ Len(attempts) >= 1 => attempts[1].audio
    /\ Len(attempts) = 2 =>
          attempts[1].outcome = "TypeError" /\ ~attempts[2].audio
    /\ (Len(attempts) = 1 /\ attempts[1].outcome \notin {"ok", "TypeError"})
          => pv_pc = "except" /\ pv_exc = attempts[1].outcome
    /\ (Len(attempts) = 2 /\ attempts[2].outcome # "ok")
          => pv_pc = "except" /\ pv_exc = attempts[2].outcome

C8_FatalStep ==
    pv_pc = "except" => (pv_pc' = "none" /\ attempts' = <<>> /\ files' = files)

C8_RetryOnce == []C8_Attempts /\ [][C8_FatalStep]_vars

C8_Witness ==
    /\ pv_pc = "except" /\ Len(attempts) = 2
    /\ attempts[1].outcome = "TypeError" /\ attempts[2].outcome = "OSError"

\* C9: a failure inside process_video never leaves it; from the except
\* clause process_video returns without writing a file and the loop moves to
\* the next file; process_video is called for the files in list order, each
\* once, and for all of them by the time process_videos returns.
C9_State ==
    /\ pvs_pc # "crashed"
    /\ Len(started) <= Len(video_files)
    /\ \A k \in 1..Len(started) : started[k] = video_files[k]
    /\ pvs_pc = "loop" => Len(started) = vidx - 1
    /\ pvs_pc = "call" => Len(started) = vidx
    /\ (pvs_pc = "returned" /\ folder_exists) => started = video_files

C9_FatalStep ==
    pv_pc = "except" =>
        /\ pvs_pc' = "loop" /\ vidx' = vidx + 1
        /\ files' = files /\ started' = started

C9_Isolation == []C9_State /\ [][C9_FatalStep]_vars

C9_Witness ==
    /\ pvs_pc = "returned" /\ Len(video_files) >= 2
    /\ 1 \in error_log
    /\ started = video_files
    /\ <<2, 1>> \in files

\* C10: whenever process_video is not running, no VideoFileClip it opened
\* is still open.
C10_HandleReleased ==
    pvs_pc \in {"loop", "returned"} => open_handles = {}

\* ========================================================================
\* Properties of smart_crop_for_instagram_reels (SpecCrop)
\* ========================================================================
Cropped == crop_pc \in {"cropped", "done"}
WindowComputed == Cropped /\ (TooWide(src_w, src_h) \/ TooTall(src_w, src_h))
Abs(x) == IF x < 0 THEN 0 - x ELSE x

\* C11: the crop window computed in the too-wide and in the too-tall branch
\* has 0 <= x1 < x2 <= width and 0 <= y1 < y2 <= height.
C11_WindowInvariant ==
    WindowComputed =>
        /\ 0 <= window.x1 /\ window.x1 < window.x2 /\ window.x2 <= src_w
        /\ 0 <= window.y1 /\ window.y1 < window.y2 /\ window.y2 <= src_h

\* C12: the returned clip is at most 1080 wide and 1920 high, and when the
\* resize step applies neither side grows.
C12_OutputBound ==
    crop_pc = "done" =>
        /\ out_size.w <= ReelsMaxW /\ out_size.h <= ReelsMaxH
        /\ (crop_size.w > ReelsMaxW \/ crop_size.h > ReelsMaxH)
              => (out_size.w <= crop_size.w /\ out_size.h <= crop_size.h)

C12_Witness ==
    /\ crop_pc = "done"
    /\ crop_size.w > ReelsMaxW /\ crop_size.h > ReelsMaxH
    /\ out_size.h = ReelsMaxH /\ out_size.w = ReelsMaxW

\* C13: the returned clip's width is less than one pixel away from 9/16 of
\* its height: |16 * w_out - 9 * h_out| < 16.
C13_AspectInvariant ==
    crop_pc = "done" => Abs(16 * out_size.w - 9 * out_size.h) < 16

\* C17: in the too-wide branch x1 is peak - new_width // 2 clamped to
\* [0, margin], margin = (width - new_width) // 2, and the window is
\* (x1, 0, x1 + new_width, height).
C17_Clamp(x, lo, hi) == IF x < lo THEN lo ELSE IF x > hi THEN hi ELSE x

C17_ClampedShift ==
    (Cropped /\ TooWide(src_w, src_h)) =>
        LET new_width == (9 * src_h) \div 16
            margin == (src_w - new_width) \div 2
        IN  /\ window.x1 = C17_Clamp(peak_col - (new_width \div 2), 0, margin)
            /\ 0 <= window.x1 /\ window.x1 <= margin
            /\ window.x2 = window.x1 + new_width
            /\ window.y1 = 0
            /\ window.y2 = src_h

C17_Witness ==
    /\ Cropped /\ TooWide(src_w, src_h)
    /\ peak_col - (NewWidth(src_h) \div 2) > CropWidth(src_w, src_h)
    /\ CropWidth(src_w, src_h) > 0
    /\ window.x1 = CropWidth(src_w, src_h)

\* ========================================================================
\* Further properties of process_video (SpecBatch)
\* ========================================================================

\* C14: when the write with audio fails with TypeError and the write
\* without audio succeeds, the segment has exactly two attempts, both on the
\* same path, the file of that path exists, no exception is in flight and
\* the for loop is at the next segment.
C14_RetrySucceeded == Len(attempts) = 2 /\ attempts[2].outcome = "ok"

C14_State ==
    C14_RetrySucceeded =>
        /\ attempts[1].audio /\ attempts[1].outcome = "TypeError"
        /\ ~attempts[2].audio
        /\ attempts[2].path = attempts[1].path
        /\ attempts[2].path \in files
        /\ pv_exc = "none" /\ pv_pc = "for"
        /\ seg_i = attempts[2].path[2] + 1
        /\ pvs_pc = "call"

C14_Step ==
    (pv_pc = "retry" /\ pv_pc' = "for") =>
        /\ Len(attempts') = 2 /\ attempts'[2].outcome = "ok"
        /\ files' = files \cup {<<CurrentFile, seg_i>>}
        /\ seg_i' = seg_i + 1
        /\ error_log' = error_log

C14_RetryScenario == []C14_State /\ [][C14_Step]_vars

C14_Witness ==
    /\ C14_RetrySucceeded
    /\ pv_pc = "for" /\ seg_i = 2 /\ Len(pv_clips) >= 2
    /\ <<CurrentFile, 1>> \in files
    /\ CurrentFile \notin error_log

\* C16: while process_video runs, the files written for its video are those
\* of the segments before the current one; every attempt is made on the
\* segment at the loop position and on the path carrying that position; the
\* loop position moves by one, and only after an attempt that succeeded.
C16_Position == IF pv_pc = "for" THEN seg_i - 1 ELSE seg_i

C16_State ==
    pvs_pc = "call" =>
        /\ {j \in 1..Len(pv_clips) : <<CurrentFile, j>> \in files}
              = 1..(seg_i - 1)
        /\ \A f \in files : f[1] = CurrentFile => f[2] \in 1..Len(pv_clips)
        /\ \A k \in 1..Len(attempts) :
              /\ attempts[k].path = <<CurrentFile, C16_Position>>
              /\ attempts[k].seg = pv_clips[C16_Position]
        /\ pv_pc \in {"write", "retry"} => seg_i \in 1..Len(pv_clips)

C16_Step ==
    (pvs_pc = "call" /\ seg_i >= 1 /\ seg_i' # seg_i /\ pvs_pc' = "call") =>
        /\ seg_i' = seg_i + 1
        /\ attempts' # <<>>
        /\ attempts'[Len(attempts')].outcome = "ok"
        /\ \A k \in 1..(Len(attempts') - 1) : attempts'[k].outcome # "ok"

C16_InOrder == []C16_State /\ [][C16_Step]_vars

C16_Witness ==
    /\ pvs_pc = "call" /\ pv_pc = "for"
    /\ Len(pv_clips) = 3 /\ seg_i = 4
    /\ {<<CurrentFile, 1>>, <<CurrentFile, 2>>, <<CurrentFile, 3>>} \subseteq files

\* ========================================================================
\* Further properties of ensure_fps (SpecFps)
\* ========================================================================

\* C15: a second ensure_fps call with the same default leaves clip.fps as
\* the first call left it.
C15_Idempotent == fps_calls = 2 => fps = fps_first

C15_Witness ==
    /\ fps_calls = 2 /\ fps = default_fps /\ fps = fps_first
    /\ ValidPositive(fps)

\* ========================================================================
\* Further properties of create_clips (SpecClips, SpecClipsFair)
\* ========================================================================
ExactMultiple == duration > 0 /\ duration % max_duration = 0

\* C18 as stated: for a duration that is an exact multiple of max_duration
\* the call ends in the merge branch (entered with remaining 0).
C18_MergeReached == (Returned /\ ExactMultiple) => cc_branch = "merge"

\* C18 as amended: for such a duration the last pass takes the branch
\* min_duration <= remaining <= max_duration with remaining = max_duration,
\* the cursor then equals duration and the loop ends on its condition; the
\* loop body, and so the merge branch, is never entered with remaining 0.
C18_State ==
    /\ (Returned /\ ExactMultiple) =>
          /\ cc_branch = "rest"
          /\ current_time = duration
          /\ Last(clips) = <<duration - max_duration, duration>>
    /\ cc_branch = "merge" => current_time < duration

C18_Step == (cc_pc = "loop" /\ Remaining = 0) => (cc_pc' = "done" /\ clips' = clips)

C18_ExactMultiplePath == []C18_State /\ [][C18_Step]_vars

C18_Witness ==
    /\ Returned /\ ExactMultiple /\ Len(clips) >= 2
    /\ cc_branch = "rest" /\ current_time = duration

\* C19: the call returns; a pass that goes back to the loop head has moved
\* the cursor forward; at the loop head the cursor is the end of the last
\* segment, 0 when there is none.
C19_CursorAtHead ==
    cc_pc = "loop" =>
        current_time = (IF clips = <<>> THEN 0 ELSE Last(clips)[2])

C19_CursorStep ==
    (cc_pc = "loop" /\ cc_pc' = "loop") => current_time' > current_time

C19_Terminates ==
    /\ <>(cc_pc = "done")
    /\ []C19_CursorAtHead
    /\ [][C19_CursorStep]_vars

C19_Witness ==
    /\ cc_pc = "loop" /\ Len(clips) >= 2
    /\ current_time = Last(clips)[2] /\ current_time < duration

\* C20: every returned segment is shorter than max_duration + min_duration;
\* a segment longer than max_duration is the last one, left by the merge
\* branch.
C20_LengthCap ==
    Returned =>
        \A i \in 1..Len(clips) :
            /\ SegLen(clips[i]) < max_duration + min_duration
            /\ SegLen(clips[i]) > max_duration =>
                  (i = Len(clips) /\ cc_branch = "merge")

C20_Witness ==
    /\ Returned /\ cc_branch = "merge"
    /\ SegLen(Last(clips)) = max_duration + min_duration - 1
    /\ min_duration >= 2

====
